---- MODULE Spec2Model ----
(***************************************************************************)
(* A model of the Lumora dashboard client: the detection feed reducer      *)
(* (useDetectionContext), the per-camera capture-and-infer tile            *)
(* (CameraTileContent), the camera collection controller and the settings  *)
(* (LumoraDashboard), the control panel with the realtime subscriptions    *)
(* of its Dashboard, and the theme flag (useTheme).  Each component has    *)
(* its own specification; the variables of the other components stay at    *)
(* their initial values.                                                   *)
(***************************************************************************)
EXTENDS Integers, Sequences, FiniteSets, TLC

VARIABLES
    \* ---- detection feed reducer (src/src/hooks/useTheme.ts) ----
    now,            \* Date.now(), in ms
    detections,     \* useState<Detection[]>
    activeAlerts,   \* useState<DetectionAlert[]>
    alertQueue,     \* updaters handed to setActiveAlerts and not yet run by React
    timers,         \* pending setTimeout(..., 5000) callbacks, in creation order
    calls,          \* history: one entry per addDetection call made
    feedOn,         \* the component that calls useDetectionContext is mounted
    \* ---- one camera tile (src/src/components/CameraTile.tsx) ----
    mounted,        \* a CameraTileContent instance of the camera is mounted
    inst,           \* which instance: every mount creates a fresh one
    is_active,      \* camera.is_active, a prop
    stream_url,     \* camera.stream_url, a prop
    localDetections,\* useState<LocalDetection[]>([]) of the mounted instance
    error,          \* useState<string | null>(null)
    isStreaming,    \* useState(false)
    srcObject,      \* videoRef.current.srcObject: the run whose stream it is, or 0
    effects,        \* the runs of the webcam effect that wait for, or hold, a stream
    acquired,       \* getUserMedia calls made
    loopOn,         \* the setInterval of the inference loop is pending
    loopUrl,        \* history: camera.stream_url when that interval was set
    inflight,       \* POST /detect requests not yet answered
    posted,         \* POST /detect requests made
    lastAnswer,     \* history: how the answer handled last came ("none" before any)
    lastOk,         \* history: the request whose ok answer the mounted instance
                    \* handled last, 0 before any
    maxOkId,        \* history: the latest request the mounted instance saw answered ok
    \* ---- camera collection controller (src/src/components/LumoraDashboard.tsx) ----
    store,          \* the cameras table: id -> [user_id, position]
    cameras,        \* useState<Camera[]>([])
    loading,        \* useState(true)
    loads,          \* loadCameras calls whose query is answered, not yet handled
    upserts,        \* bulk upserts of handleReorderCameras not yet answered
    deletes,        \* deletes of handleDeleteCamera answered by the store, not yet handled
    started,        \* history: loadCameras calls, reorders and deletes made
    \* ---- control panel (src/src/components/ControlPanel.tsx, its Dashboard) and
    \*      the settings handlers of LumoraDashboard ----
    system_state,   \* the row of table system_state: [status]
    activity_log,   \* table activity_log, in insertion order
    systemState,    \* Dashboard's useState<SystemState | null>: the status shown
    stateLoads,     \* loadSystemState calls not yet answered
    panel,          \* the updateSystemState call under way, and where it stands
    panelLoading,   \* ControlPanel's useState(false)
    panelError,     \* ControlPanel's useState('')
    system_settings,\* the user's row of table system_settings
    settings,       \* LumoraDashboard's useState<SystemSettings | null>
    settingOps,     \* settings updates answered by the store, not yet handled
    ctl,            \* history: calls made, what the last call attempted, how it failed
    \* ---- realtime channels of the Dashboard (src/unnamed/part_000) and a second
    \*      session that runs ControlPanel.updateSystemState ----
    dashOn,         \* the Dashboard is mounted
    channels,       \* the realtime channels the Dashboard is subscribed to
    pushed,         \* change messages sent to the Dashboard, not yet delivered
    logLoads,       \* history: loadActivityLog calls made from the realtime callback
    remote,         \* the updateSystemState call of the other session
    \* ---- LumoraDashboard.loadSettings ----
    settingLoads,   \* loadSettings calls whose request is answered, not yet handled
    loadHist,       \* history: loadSettings calls made, rows inserted
    \* ---- useTheme (src/src/hooks/useTheme.ts) ----
    isDark,         \* useState(true)
    lumoraTheme,    \* localStorage item 'lumoraTheme', "none" when absent
    themePhase,     \* "effect": mounted, the mount effect not yet run;  "ready"
    themeQueue,     \* updaters handed to setIsDark by toggleTheme, not yet run
    themeHist       \* history of this start: the flag it settled on, toggles run

varsFeed == <<now, detections, activeAlerts, alertQueue, timers, calls, feedOn>>

varsTile == <<mounted, inst, is_active, stream_url, localDetections, error,
              isStreaming, srcObject, effects, acquired, loopOn, loopUrl,
              inflight, posted, lastAnswer, lastOk, maxOkId>>

varsCams == <<store, cameras, loading, loads, upserts, deletes, started>>

varsCtl == <<system_state, activity_log, systemState, stateLoads, panel,
             panelLoading, panelError, system_settings, settings, settingOps, ctl>>

varsLive == <<dashOn, channels, logLoads, remote>>

varsLoad == <<settingLoads, loadHist>>

varsTheme == <<isDark, lumoraTheme, themePhase, themeQueue, themeHist>>

\* the state outside the feed, the tile, the camera list and the control panel
varsRest == <<varsLive, pushed, varsLoad, varsTheme>>

vars == <<varsFeed, varsTile, varsCams, varsCtl, varsLive, pushed, varsLoad, varsTheme>>

-----------------------------------------------------------------------------
(* Bounds of the model *)

MaxEvents == 2      \* addDetection calls explored beyond the recorded history
Prefill == 99       \* detections recorded (below threshold) before the run
MaxTime == 8001     \* the clock stops here
Grain == 1000       \* the clock visits k*Grain and k*Grain + 1
Lag == 1            \* ms a due timer or a queued updater may wait at most

MaxMounts == 2      \* instances of the tile mounted in a run
MaxAcquire == 2     \* getUserMedia calls in a run
MaxRequests == 2    \* POST /detect requests in a run

MaxLoads == 2       \* loadCameras calls in a run
MaxPending == 1     \* loadCameras calls under way at once
MaxReorders == 2    \* handleReorderCameras calls in a run
MaxDeletes == 1     \* handleDeleteCamera calls in a run
MaxOps == 4         \* loadCameras, reorder and delete calls in a run, together

MaxCalls == 2       \* updateSystemState calls in a run
MaxSettingCalls == 2 \* handleArmedChange / handleThresholdChange calls in a run

MaxRemoteCalls == 1 \* updateSystemState calls of the other session in a run
MaxWrites == 2      \* updateSystemState calls of both sessions in a run, together
MaxSettingLoads == 3 \* loadSettings calls in a run
MaxToggles == 3     \* toggleTheme calls in a run
MaxRestarts == 2    \* page loads after the first in a run

(* Program constants *)

BufferCap == 100    \* .slice(0, 100)
AlertTtl == 5000    \* setTimeout(..., 5000) and  Date.now() - a.timestamp < 5000

DetIds == {"d1", "d2"}
CameraIds == {"c1"}
Confidences == {60, 70, 90}
Thresholds == {70}
Urls == {"devA", "devB"}
User == "u1"        \* user?.id

Instants == {t \in 0..MaxTime : t % Grain \in {0, 1}}

Min(a, b) == IF a < b THEN a ELSE b

-----------------------------------------------------------------------------
(* Sequence helpers standing for the Array methods the code calls;
   Array.prototype.filter is SelectSeq *)

\* Array.prototype.slice(0, n)
Slice0(s, n) == SubSeq(s, 1, Min(Len(s), n))

-----------------------------------------------------------------------------
(* useDetectionContext *)

\* a Detection; seq is the ordinal of the addDetection call that recorded it
Event(id, cam, conf, n) ==
    [id |-> id, camera_id |-> cam, confidence |-> conf, seq |-> n]

\* setDetections((prev) => [detection, ...prev].slice(0, 100))
PrependDropsNewest(prev, ev) == Slice0(prev \o <<ev>>, BufferCap)
Prepend(prev, ev) == Slice0(<<ev>> \o prev, BufferCap)

\* the buffer after n below-threshold recordings of the event "old", the last
\* of them first; they carry the ordinals 1-n .. 0, the calls of the run 1, 2, ..
Recorded(n) ==
    Slice0([i \in 1..n |-> Event("old", "c1", 0, 1 - i)], BufferCap)

\* if (detection.confidence >= threshold)
RaisesStrict(conf, th) == conf > th
Raises(conf, th) == conf >= th

\* prev.filter((a) => Date.now() - a.timestamp < 5000), run at time t
Sweep(prev, t) == SelectSeq(prev, LAMBDA a : t - a.timestamp < AlertTtl)

\* (prev) => [{camera_id, confidence, timestamp: Date.now()}, ...prev], run at time t
Insert(prev, u, t) ==
    <<[camera_id |-> u.camera_id, confidence |-> u.confidence,
       timestamp |-> t, seq |-> u.seq]>> \o prev

\* React runs the queued updaters of one state in order, in one render at time t
RECURSIVE RunUpdaters(_, _, _)
RunUpdaters(prev, q, t) ==
    IF q = <<>> THEN prev
    ELSE RunUpdaters(IF Head(q).kind = "insert" THEN Insert(prev, Head(q), t)
                     ELSE Sweep(prev, t),
                     Tail(q), t)

\* useState([]) twice; nothing queued, no timer pending
InitAlerts ==
    /\ now = 0
    /\ detections = <<>>
    /\ activeAlerts = <<>>
    /\ alertQueue = <<>>
    /\ timers = <<>>
    /\ calls = <<>>
    /\ feedOn = TRUE

\* the same hook after Prefill recordings that raised no alert
InitBuffer ==
    /\ now = 0
    /\ detections = Recorded(Prefill)
    /\ activeAlerts = <<>>
    /\ alertQueue = <<>>
    /\ timers = <<>>
    /\ calls = <<>>
    /\ feedOn = TRUE

\* addDetection(detection, threshold)
AddDetection(id, cam, conf, th) ==
    /\ feedOn
    /\ Len(calls) < MaxEvents
    /\ LET n == Len(calls) + 1 IN
       /\ detections' = Prepend(detections, Event(id, cam, conf, n))
       /\ calls' = Append(calls, [seq |-> n, confidence |-> conf,
                                  threshold |-> th, at |-> now])
       /\ IF Raises(conf, th)
          THEN /\ alertQueue' = Append(alertQueue,
                     [kind |-> "insert", camera_id |-> cam,
                      confidence |-> conf, seq |-> n, at |-> now])
               /\ timers' = Append(timers, [deadline |-> now + AlertTtl, seq |-> n])
          ELSE UNCHANGED <<alertQueue, timers>>
    /\ UNCHANGED <<now, activeAlerts, feedOn>>

\* clearDetection(detectionId):
\* setDetections((prev) => prev.filter((d) => d.id !== detectionId))
ClearDetectionOrOldest(id) ==
    /\ feedOn
    /\ detections' = IF \E i \in DOMAIN detections : detections[i].id = id
                     THEN SelectSeq(detections, LAMBDA d : d.id # id)
                     ELSE SubSeq(detections, 1, Len(detections) - 1)
    /\ UNCHANGED <<now, activeAlerts, alertQueue, timers, calls, feedOn>>
ClearDetection(id) ==
    /\ feedOn
    /\ detections' = SelectSeq(detections, LAMBDA d : d.id # id)
    /\ UNCHANGED <<now, activeAlerts, alertQueue, timers, calls, feedOn>>

\* the setTimeout callback of one alert: fires no earlier than its deadline;
\* its setActiveAlerts does nothing once the component is unmounted
TimerFire ==
    /\ timers # <<>>
    /\ Head(timers).deadline <= now
    /\ alertQueue' = IF feedOn
                     THEN Append(alertQueue,
                              [kind |-> "sweep", camera_id |-> "c1", confidence |-> 0,
                               seq |-> Head(timers).seq, at |-> now])
                     ELSE alertQueue
    /\ timers' = Tail(timers)
    /\ UNCHANGED <<now, detections, activeAlerts, calls, feedOn>>

\* React renders: the queued setActiveAlerts updaters run, reading Date.now()
Render ==
    /\ alertQueue # <<>>
    /\ activeAlerts' = RunUpdaters(activeAlerts, alertQueue, now)
    /\ alertQueue' = <<>>
    /\ UNCHANGED <<now, detections, timers, calls, feedOn>>

\* time passes; a due timer fires, and React renders a queued update, within
\* Lag ms
Advance ==
    /\ \E t \in Instants :
          /\ t > now
          /\ \A i \in DOMAIN timers : t - timers[i].deadline <= Lag
          /\ \A i \in DOMAIN alertQueue : t - alertQueue[i].at <= Lag
          /\ now' = t
    /\ UNCHANGED <<detections, activeAlerts, alertQueue, timers, calls, feedOn>>

\* the component that owns the feed is unmounted (sign-out): the hook's state
\* and its queued updates are gone; the hook has no effect cleanup and keeps
\* no timer ids, so the pending setTimeout callbacks stay scheduled
Teardown ==
    /\ feedOn
    /\ feedOn' = FALSE
    /\ detections' = <<>>
    /\ activeAlerts' = <<>>
    /\ alertQueue' = <<>>
    /\ calls' = <<>>
    /\ UNCHANGED <<now, timers>>

\* const hasActiveAlert = activeAlerts.length > 0
hasActiveAlert == Len(activeAlerts) > 0

\* Math.max(...values)
RECURSIVE MathMax(_)
MathMax(values) ==
    IF Len(values) = 1 THEN values[1]
    ELSE LET m == MathMax(Tail(values)) IN
         IF values[1] > m THEN values[1] ELSE m

\* activeAlerts.length > 0 ? Math.max(...activeAlerts.map((a) => a.confidence)) : 0
highestConfidenceOfNewest ==
    IF Len(activeAlerts) > 0 THEN activeAlerts[1].confidence ELSE 0
highestConfidence ==
    IF Len(activeAlerts) > 0
    THEN MathMax([i \in DOMAIN activeAlerts |-> activeAlerts[i].confidence])
    ELSE 0

-----------------------------------------------------------------------------
(* CameraTileContent: the webcam effect and the inference loop effect *)

InitTile ==
    /\ mounted = FALSE
    /\ inst = 0
    /\ is_active = TRUE
    /\ stream_url = "devA"
    /\ localDetections = <<>>
    /\ error = "null"
    /\ isStreaming = FALSE
    /\ srcObject = 0
    /\ effects = {}
    /\ acquired = 0
    /\ loopOn = FALSE
    /\ loopUrl = "devA"
    /\ inflight = {}
    /\ posted = 0
    /\ lastAnswer = "none"
    /\ lastOk = 0
    /\ maxOkId = 0

\* instance i of the tile is the mounted one: its videoRef.current is set and
\* React applies its state setters
Live(i) == mounted /\ i = inst

\* the body of the webcam effect, run for instance i with the props (active, url):
\* if (source_type !== 'webcam' || !is_active) return;  startWebcam()
StartWebcam(efs, n, i, active, url) ==
    IF active
    THEN efs \cup {[id |-> n + 1, inst |-> i, url |-> url, status |-> "pending",
                    cleaned |-> FALSE]}
    ELSE efs

\* the cleanup of the webcam effect:  if (stream) stream.getTracks().forEach(stop),
\* where `stream` is the variable of that run, null until getUserMedia resolves.
\* A run that is cleaned up and holds no live stream plays no further part.
CleanupWebcam(efs) ==
    {[e EXCEPT !.cleaned = TRUE] : e \in {f \in efs : f.status = "pending"}}
    \cup {e \in efs : e.cleaned /\ e.status = "held"}

\* a getUserMedia call is needed and allowed by the bound
CanAcquire(active) == ~active \/ acquired < MaxAcquire

Bump(n, active) == IF active THEN n + 1 ELSE n

\* the tile is mounted: fresh state, both effects run (isStreaming is false,
\* so the inference effect returns at once)
Mount ==
    /\ ~mounted
    /\ inst < MaxMounts
    /\ CanAcquire(is_active)
    /\ mounted' = TRUE
    /\ inst' = inst + 1
    /\ localDetections' = <<>>
    /\ error' = "null"
    /\ isStreaming' = FALSE
    /\ srcObject' = 0
    /\ effects' = StartWebcam(effects, acquired, inst + 1, is_active, stream_url)
    /\ acquired' = Bump(acquired, is_active)
    /\ lastOk' = 0
    /\ maxOkId' = 0
    /\ UNCHANGED <<is_active, stream_url, loopOn, loopUrl, inflight, posted,
                   lastAnswer>>

\* the tile is unmounted: both cleanups run and the instance's state is gone
Unmount ==
    /\ mounted
    /\ mounted' = FALSE
    /\ effects' = CleanupWebcam(effects)
    /\ loopOn' = FALSE
    /\ localDetections' = <<>>
    /\ error' = "null"
    /\ isStreaming' = FALSE
    /\ srcObject' = 0
    /\ lastOk' = 0
    /\ maxOkId' = 0
    /\ UNCHANGED <<inst, is_active, stream_url, acquired, loopUrl, inflight,
                   posted, lastAnswer>>

\* the props of the mounted tile change (camera.is_active or
\* camera.stream_url): the webcam effect, whose dependencies they are, is cleaned up and run again;
\* the inference effect depends on isStreaming alone and is left as it is
SetProps(active, url) ==
    /\ mounted
    /\ <<active, url>> # <<is_active, stream_url>>
    /\ CanAcquire(active)
    /\ is_active' = active
    /\ stream_url' = url
    /\ effects' = StartWebcam(CleanupWebcam(effects), acquired, inst, active, url)
    /\ acquired' = Bump(acquired, active)
    /\ UNCHANGED <<mounted, inst, localDetections, error, isStreaming, srcObject,
                   loopOn, loopUrl, inflight, posted, lastAnswer, lastOk, maxOkId>>

\* getUserMedia of run e resolves:  stream = ...;  if (videoRef.current)
\* { srcObject = stream; setIsStreaming(true) }; isStreaming turning true runs
\* the inference effect, which sets the interval
AcquireOk(e) ==
    /\ e \in effects
    /\ e.status = "pending"
    /\ effects' = (effects \ {e}) \cup {[e EXCEPT !.status = "held"]}
    /\ IF Live(e.inst)
       THEN /\ srcObject' = e.id
            /\ isStreaming' = TRUE
            /\ loopOn' = TRUE
            /\ loopUrl' = IF loopOn THEN loopUrl ELSE stream_url
       ELSE UNCHANGED <<srcObject, isStreaming, loopOn, loopUrl>>
    /\ UNCHANGED <<mounted, inst, is_active, stream_url, localDetections, error,
                   acquired, inflight, posted, lastAnswer, lastOk, maxOkId>>

\* getUserMedia of run e rejects:  setError('Failed to access webcam')
AcquireFail(e) ==
    /\ e \in effects
    /\ e.status = "pending"
    /\ effects' = effects \ {e}
    /\ error' = IF Live(e.inst) THEN "Failed to access webcam" ELSE error
    /\ UNCHANGED <<mounted, inst, is_active, stream_url, localDetections,
                   isStreaming, srcObject, acquired, loopOn, loopUrl, inflight,
                   posted, lastAnswer, lastOk, maxOkId>>

\* a tick of the interval with video.readyState !== 4:  return
TickSkip ==
    /\ loopOn
    /\ UNCHANGED vars

\* a tick of the interval that captures the frame and posts it; `wanted`
\* records whether the camera was active, on the stream the loop began with
TickPost ==
    /\ loopOn
    /\ posted < MaxRequests
    /\ posted' = posted + 1
    /\ inflight' = inflight \cup
          {[id |-> posted + 1, inst |-> inst,
            wanted |-> is_active /\ loopUrl = stream_url]}
    /\ UNCHANGED <<mounted, inst, is_active, stream_url, localDetections, error,
                   isStreaming, srcObject, effects, acquired, loopOn, loopUrl,
                   lastAnswer, lastOk, maxOkId>>

\* data.detections of the response to request r: what the detector finds in
\* the frame that request carried
Detected(r) == <<[class |-> "person", frame |-> r.id]>>

\* setLocalDetections(data.detections), called by the closure of instance
\* r.inst: React applies it to that instance while it is mounted
OverlayAnyInstance(prev, r, data) == IF mounted THEN data ELSE prev
OverlayMerges(prev, r, data) == IF Live(r.inst) THEN data \o prev ELSE prev
OverlayInRequestOrder(prev, r, data) ==
    IF Live(r.inst) /\ r.id > maxOkId THEN data ELSE prev
Overlay(prev, r, data) == IF Live(r.inst) THEN data ELSE prev

Max(a, b) == IF a > b THEN a ELSE b

\* the response of request r arrives with response.ok
ResponseOk(r) ==
    /\ r \in inflight
    /\ inflight' = inflight \ {r}
    /\ localDetections' = Overlay(localDetections, r, Detected(r))
    /\ lastAnswer' = IF Live(r.inst) THEN "ok" ELSE "ok, late"
    /\ lastOk' = IF Live(r.inst) THEN r.id ELSE lastOk
    /\ maxOkId' = IF Live(r.inst) THEN Max(maxOkId, r.id) ELSE maxOkId
    /\ UNCHANGED <<mounted, inst, is_active, stream_url, error, isStreaming,
                   srcObject, effects, acquired, loopOn, loopUrl, posted>>

\* fetch rejects, or the response is not ok: console.error, nothing else
ResponseFail(r) ==
    /\ r \in inflight
    /\ inflight' = inflight \ {r}
    /\ lastAnswer' = IF Live(r.inst) THEN "failed" ELSE "failed, late"
    /\ UNCHANGED <<mounted, inst, is_active, stream_url, localDetections, error,
                   isStreaming, srcObject, effects, acquired, loopOn, loopUrl,
                   posted, lastOk, maxOkId>>

-----------------------------------------------------------------------------
(* LumoraDashboard: loadCameras and handleReorderCameras *)

\* the cameras table, its rows holding distinct positions; "X" is another
\* user's camera
StoreInit ==
    [id \in {"A", "B", "C", "X"} |->
        [user_id |-> IF id = "X" THEN "u2" ELSE User,
         position |-> CASE id = "A" -> 0 [] id = "B" -> 1 [] id = "C" -> 2
                        [] OTHER -> 0]]

InitCams ==
    /\ store = StoreInit
    /\ cameras = <<>>
    /\ loading = TRUE
    /\ loads = {}
    /\ upserts = {}
    /\ deletes = {}
    /\ started = [loads |-> 0, reorders |-> 0, deletes |-> 0]

\* the calls made so far are fewer than the bound
MayBegin == started.loads + started.reorders + started.deletes < MaxOps

\* .eq('user_id', user?.id)
OwnIds(st, u) == {id \in DOMAIN st : st[id].user_id = u}

\* the sequences that list every element of S once
Listings(S) ==
    {s \in [1..Cardinality(S) -> S] : \A i, j \in DOMAIN s : i # j => s[i] # s[j]}

\* a row as the client holds it (of its columns, the id alone is ever read)
Row(st, id) == [id |-> id]

\* select('*').eq('user_id', u): the rows in whatever order the store yields
Unordered(st, u) ==
    {[i \in DOMAIN s |-> Row(st, s[i])] : s \in Listings(OwnIds(st, u))}

\* ... .order('position', { ascending: true }): rows of equal position in any order
Ordered(st, u) ==
    {s \in Unordered(st, u) :
        \A i, j \in DOMAIN s : i < j => st[s[i].id].position <= st[s[j].id].position}

\* loadCameras is called: the ordered query goes out and the store answers it
LoadStart ==
    /\ MayBegin
    /\ started.loads < MaxLoads
    /\ Cardinality(loads) < MaxPending
    /\ started' = [started EXCEPT !.loads = @ + 1]
    /\ \E answer \in {[error |-> TRUE, data |-> <<>>]}
                     \cup {[error |-> FALSE, data |-> s] : s \in Ordered(store, User)} :
          loads' = loads \cup
              {[n |-> started.loads + 1, query |-> "ordered", error |-> answer.error,
                data |-> answer.data]}
    /\ UNCHANGED <<store, cameras, loading, upserts, deletes>>

\* the ordered query's answer is handled without error:
\* setCameras(data || []);  finally setLoading(false)
LoadOrderedOk(op) ==
    /\ op \in loads
    /\ op.query = "ordered" /\ ~op.error
    /\ cameras' = op.data
    /\ loading' = FALSE
    /\ loads' = loads \ {op}
    /\ UNCHANGED <<store, upserts, deletes, started>>

\* what the catch block queries after `if (error) throw error`
FallbackGivesUp(st, u) == {<<>>}
Fallback(st, u) == Unordered(st, u)

\* the ordered query's answer is an error: the fallback query goes out, without
\* .order, and the store answers it
LoadOrderedError(op) ==
    /\ op \in loads
    /\ op.query = "ordered" /\ op.error
    /\ \E answer \in {[error |-> TRUE, data |-> <<>>]}
                     \cup {[error |-> FALSE, data |-> s] : s \in Fallback(store, User)} :
          loads' = (loads \ {op}) \cup
              {[n |-> op.n, query |-> "fallback", error |-> answer.error,
                data |-> answer.data]}
    /\ UNCHANGED <<store, cameras, loading, upserts, deletes, started>>

\* the fallback query's answer is handled without error
LoadFallbackOk(op) ==
    /\ op \in loads
    /\ op.query = "fallback" /\ ~op.error
    /\ cameras' = op.data
    /\ loading' = FALSE
    /\ loads' = loads \ {op}
    /\ UNCHANGED <<store, upserts, deletes, started>>

\* the fallback query fails too: console.error;  finally setLoading(false)
LoadFallbackErrorKeepsLoading(op) ==
    /\ op \in loads
    /\ op.query = "fallback" /\ op.error
    /\ loads' = loads \ {op}
    /\ UNCHANGED <<store, cameras, loading, upserts, deletes, started>>

LoadFallbackError(op) ==
    /\ op \in loads
    /\ op.query = "fallback" /\ op.error
    /\ loading' = FALSE
    /\ loads' = loads \ {op}
    /\ UNCHANGED <<store, cameras, upserts, deletes, started>>

\* arrayMove of @dnd-kit/sortable, on 1-based positions:
\* newArray.splice(to, 0, newArray.splice(from, 1)[0])
RemoveAt(s, i) == SubSeq(s, 1, i - 1) \o SubSeq(s, i + 1, Len(s))
InsertAt(s, i, x) == SubSeq(s, 1, i - 1) \o <<x>> \o SubSeq(s, i, Len(s))
ArrayMoveSwaps(s, from, to) == [s EXCEPT ![from] = s[to], ![to] = s[from]]
ArrayMove(s, from, to) == InsertAt(RemoveAt(s, from), to, s[from])

\* newCameras.map((camera, index) => ({ id: camera.id, position: index, ... }))
Updates(list) == [i \in DOMAIN list |-> [id |-> list[i].id, position |-> i - 1]]

\* handleReorderCameras(oldIndex, newIndex), indices counted from 0
Reorder(oldIndex, newIndex) ==
    /\ MayBegin
    /\ started.reorders < MaxReorders
    /\ oldIndex # newIndex
    /\ LET newCameras == ArrayMove(cameras, oldIndex + 1, newIndex + 1) IN
       /\ cameras' = newCameras
       /\ upserts' = upserts \cup
             {[n |-> started.reorders + 1, updates |-> Updates(newCameras)]}
    /\ started' = [started EXCEPT !.reorders = @ + 1]
    /\ UNCHANGED <<store, loading, loads, deletes>>

\* the columns of table cameras declared NOT NULL without a default
NotNull == {"user_id", "name", "source_type"}

\* upsert is INSERT ... ON CONFLICT (id) DO UPDATE: every row of the payload is
\* first a row proposed for insertion, the columns it does not name left to
\* their defaults, and the NOT NULL constraints are checked on the proposed
\* row before the conflict on id is looked at
Accepted(updates) == \A i \in DOMAIN updates : NotNull \subseteq DOMAIN updates[i]

\* upsert(updates, { onConflict: 'id' }) applied by the store
Upserted(st, updates) ==
    [id \in DOMAIN st |->
        IF \E i \in DOMAIN updates : updates[i].id = id
        THEN [st[id] EXCEPT !.position =
                 updates[CHOOSE i \in DOMAIN updates : updates[i].id = id].position]
        ELSE st[id]]

\* the upsert reaches the store and is answered: applied when the store accepts
\* the payload, else an error (console.error); the local list is kept either way
PersistAnswered(op) ==
    /\ op \in upserts
    /\ store' = IF Accepted(op.updates) THEN Upserted(store, op.updates) ELSE store
    /\ upserts' = upserts \ {op}
    /\ UNCHANGED <<cameras, loading, loads, deletes, started>>

\* the upsert fails on its way: console.error, and the optimistic order is kept
PersistError(op) ==
    /\ op \in upserts
    /\ upserts' = upserts \ {op}
    /\ UNCHANGED <<store, cameras, loading, loads, deletes, started>>

\* .from('cameras').delete().eq('id', cameraId) applied by the store
Deleted(st, cameraId) == [id \in DOMAIN st \ {cameraId} |-> st[id]]

\* handleDeleteCamera(cameraId), from the delete button of a tile in the
\* list: the delete goes out and the store answers it
DeleteStart(cameraId) ==
    /\ MayBegin
    /\ started.deletes < MaxDeletes
    /\ \E i \in DOMAIN cameras : cameras[i].id = cameraId
    /\ started' = [started EXCEPT !.deletes = @ + 1]
    /\ \E failed \in BOOLEAN :
          /\ store' = IF failed THEN store ELSE Deleted(store, cameraId)
          /\ deletes' = deletes \cup
                {[n |-> started.deletes + 1, id |-> cameraId, error |-> failed]}
    /\ UNCHANGED <<cameras, loading, loads, upserts>>

\* setCameras((prev) => prev.filter((c) => c.id !== cameraId))
RemovedNothing(prev, cameraId) == prev
Removed(prev, cameraId) == SelectSeq(prev, LAMBDA c : c.id # cameraId)

\* the delete succeeded: the camera leaves the local list; no loadCameras
DeleteOk(op) ==
    /\ op \in deletes
    /\ ~op.error
    /\ cameras' = Removed(cameras, op.id)
    /\ deletes' = deletes \ {op}
    /\ UNCHANGED <<store, loading, loads, upserts, started>>

\* the delete failed: console.error
DeleteError(op) ==
    /\ op \in deletes
    /\ op.error
    /\ deletes' = deletes \ {op}
    /\ UNCHANGED <<store, cameras, loading, loads, upserts, started>>

-----------------------------------------------------------------------------
(* ControlPanel.updateSystemState, Dashboard.loadSystemState, and
   LumoraDashboard.handleArmedChange / handleThresholdChange *)

\* handleArm, handleDisarm, handleBreach: (newStatus, eventType)
Buttons == {<<"armed", "armed">>, <<"disarmed", "disarmed">>, <<"alert", "breach">>}

ThresholdChoices == {50, 70}

Idle == [pc |-> "idle", newStatus |-> "", eventType |-> "", before |-> ""]

\* the names given to supabase.channel(...)
StateChannel == "system-state-changes"
LogChannel == "activity-log-changes"

\* a change of table system_state (event '*') or an insert into activity_log
\* is sent to the Dashboard on the channel it subscribed for that table
Publish(q, channel, new) ==
    IF channel \in channels THEN Append(q, [channel |-> channel, new |-> new]) ELSE q

\* useState<SystemSettings | null>(null), and the data of a select that finds no row
Null == [null |-> TRUE]

\* loadSettings inserts { is_armed: false, alert_threshold: 70 } for a new user
SettingsInit == [is_armed |-> FALSE, alert_threshold |-> 70]

InitCtl ==
    /\ system_state = [status |-> "disarmed"]
    /\ activity_log = <<>>
    /\ systemState = "disarmed"
    /\ stateLoads = 0
    /\ panel = Idle
    /\ panelLoading = FALSE
    /\ panelError = ""
    /\ system_settings = SettingsInit
    /\ settings = SettingsInit
    /\ settingOps = {}
    /\ ctl = [calls |-> 0, tried |-> {}, failed |-> "none", settingCalls |-> 0,
              refused |-> 0]

\* a button of the panel is pressed: disabled={loading || currentStatus === ...}
\* (the breach button: disabled={loading});  setLoading(true); setError('');
\* the select of the row goes out
UpdateSystemState(newStatus, eventType) ==
    /\ dashOn
    /\ ctl.calls < MaxCalls
    /\ ~panelLoading
    /\ newStatus \in {"armed", "disarmed"} => systemState # newStatus
    /\ panelLoading' = TRUE
    /\ panelError' = ""
    /\ panel' = [pc |-> "fetch", newStatus |-> newStatus, eventType |-> eventType,
                 before |-> ""]
    /\ ctl' = [ctl EXCEPT !.calls = @ + 1, !.tried = {"fetch"}, !.failed = "none"]
    /\ UNCHANGED <<system_state, activity_log, systemState, stateLoads,
                   system_settings, settings, settingOps>>

\* catch (err) { setError(err.message ...) } finally { setLoading(false) }
Catch(stage) ==
    /\ panelError' = "Failed to update system state"
    /\ panelLoading' = FALSE
    /\ panel' = Idle
    /\ ctl' = [ctl EXCEPT !.failed = stage]

\* the select answers with the row: the update goes out
FetchOk ==
    /\ panel.pc = "fetch"
    /\ panel' = [panel EXCEPT !.pc = "update", !.before = system_state.status]
    /\ ctl' = [ctl EXCEPT !.tried = @ \cup {"update"}]
    /\ UNCHANGED <<system_state, activity_log, systemState, stateLoads,
                   panelLoading, panelError, system_settings, settings, settingOps>>

\* if (fetchError) throw fetchError
FetchError ==
    /\ panel.pc = "fetch"
    /\ Catch("fetch")
    /\ UNCHANGED <<system_state, activity_log, systemState, stateLoads,
                   system_settings, settings, settingOps>>

\* .update({ status: newStatus, ... }).eq('id', currentState?.id) in the store
AppliedNowhere(row, newStatus) == row
Applied(row, newStatus) == [row EXCEPT !.status = newStatus]

\* the update succeeds: the insert into activity_log goes out
UpdateOk ==
    /\ panel.pc = "update"
    /\ system_state' = Applied(system_state, panel.newStatus)
    /\ pushed' = Publish(pushed, StateChannel, panel.newStatus)
    /\ panel' = [panel EXCEPT !.pc = "insert"]
    /\ ctl' = [ctl EXCEPT !.tried = @ \cup {"insert"}]
    /\ UNCHANGED <<activity_log, systemState, stateLoads, panelLoading,
                   panelError, system_settings, settings, settingOps>>

\* if (updateError) throw updateError: the insert is never made
UpdateError ==
    /\ panel.pc = "update"
    /\ Catch("update")
    /\ UNCHANGED <<system_state, activity_log, systemState, stateLoads,
                   system_settings, settings, settingOps>>

\* the insert succeeds:  onUpdate()  (loadSystemState);  finally setLoading(false)
InsertOk ==
    /\ panel.pc = "insert"
    /\ activity_log' = Append(activity_log,
          [event_type |-> panel.eventType, status_before |-> panel.before,
           status_after |-> panel.newStatus])
    /\ pushed' = Publish(pushed, LogChannel, "")
    /\ stateLoads' = stateLoads + 1
    /\ panelLoading' = FALSE
    /\ panel' = Idle
    /\ UNCHANGED <<system_state, systemState, panelError, system_settings,
                   settings, settingOps, ctl>>

\* if (logError) throw logError
InsertError ==
    /\ panel.pc = "insert"
    /\ Catch("insert")
    /\ UNCHANGED <<system_state, activity_log, systemState, stateLoads,
                   system_settings, settings, settingOps>>

\* loadSystemState is answered:  setSystemState(data), which does nothing once
\* the Dashboard is unmounted
LoadStateOk ==
    /\ stateLoads > 0
    /\ stateLoads' = stateLoads - 1
    /\ systemState' = IF dashOn THEN system_state.status ELSE systemState
    /\ UNCHANGED <<system_state, activity_log, panel, panelLoading, panelError,
                   system_settings, settings, settingOps, ctl>>

\* loadSystemState fails: console.error
LoadStateError ==
    /\ stateLoads > 0
    /\ stateLoads' = stateLoads - 1
    /\ UNCHANGED <<system_state, activity_log, systemState, panel, panelLoading,
                   panelError, system_settings, settings, settingOps, ctl>>

\* a settings update goes out and the store answers it: applied, or an error
SettingSent(field, value) ==
    /\ ctl.settingCalls < MaxSettingCalls
    /\ \E failed \in BOOLEAN :
          /\ ctl' = [ctl EXCEPT !.settingCalls = @ + 1,
                                !.refused = @ + IF failed THEN 1 ELSE 0]
          /\ system_settings' = IF failed \/ system_settings = Null THEN system_settings
                                ELSE [system_settings EXCEPT ![field] = value]
          /\ settingOps' = settingOps \cup
                {[n |-> ctl.settingCalls + 1, field |-> field, value |-> value,
                  error |-> failed]}
    /\ UNCHANGED <<system_state, activity_log, systemState, stateLoads, panel,
                   panelLoading, panelError, settings>>

\* handleArmedChange(armed): .update({ is_armed: armed }).eq('user_id', user?.id)
HandleArmedChange(armed) == SettingSent("is_armed", armed)

\* isArmed={settings?.is_armed ?? false}
IsArmed == IF settings = Null THEN FALSE ELSE settings.is_armed

\* ArmDisarmTab.handleToggle, the only caller:  onArmedChange(!isArmed)
HandleToggle == HandleArmedChange(~IsArmed)

\* handleThresholdChange(threshold): .update({ alert_threshold: threshold })
HandleThresholdChange(threshold) == SettingSent("alert_threshold", threshold)

\* the answer is handled:  if (error) throw error  (console.error), else
\* setSettings((prev) => prev ? { ...prev, [field]: value } : null)
SettingAnswered(op) ==
    /\ op \in settingOps
    /\ settingOps' = settingOps \ {op}
    /\ settings' = IF op.error \/ settings = Null THEN settings
                   ELSE [settings EXCEPT ![op.field] = op.value]
    /\ UNCHANGED <<system_state, activity_log, systemState, stateLoads, panel,
                   panelLoading, panelError, system_settings, ctl>>

-----------------------------------------------------------------------------
(* Dashboard: the realtime subscriptions of its mount effect, and a second
   session pressing the buttons of its own ControlPanel *)

\* the Dashboard mounted, subscribed to the channels subs
LiveStart(subs) ==
    /\ dashOn = TRUE
    /\ channels = subs
    /\ pushed = <<>>
    /\ logLoads = 0
    /\ remote = [pc |-> "idle", newStatus |-> "", eventType |-> "", before |-> "",
                 calls |-> 0]

\* before its mount effect has run
InitLive == LiveStart({})

\* after its mount effect:  .channel('system-state-changes') ... .subscribe();
\* .channel('activity-log-changes') ... .subscribe()
InitSubscribed == LiveStart({StateChannel, LogChannel})

\* the oldest message is delivered: the client hands it to the callback of its
\* channel if that channel is still subscribed, and drops it otherwise.
\* (payload) => setSystemState(payload.new);   () => loadActivityLog()
Delivered ==
    /\ pushed # <<>>
    /\ pushed' = Tail(pushed)
    /\ LET m == Head(pushed) IN
       /\ systemState' = IF m.channel \in channels /\ m.channel = StateChannel
                         THEN m.new ELSE systemState
       /\ logLoads' = IF m.channel \in channels /\ m.channel = LogChannel
                      THEN logLoads + 1 ELSE logLoads
    /\ UNCHANGED <<system_state, activity_log, stateLoads, panel, panelLoading,
                   panelError, system_settings, settings, settingOps, ctl,
                   dashOn, channels, remote>>

\* the effect's cleanup:
\* supabase.removeChannel(channel); supabase.removeChannel(activityChannel)
CleanedUpFirstOnly(subs) == subs \ {StateChannel}
CleanedUp(subs) == (subs \ {StateChannel}) \ {LogChannel}

\* the Dashboard is unmounted (sign-out): the cleanup runs
DashTeardown ==
    /\ dashOn
    /\ dashOn' = FALSE
    /\ channels' = CleanedUp(channels)
    /\ UNCHANGED <<varsCtl, pushed, logLoads, remote>>

\* the button presses made so far, in both sessions, are fewer than the bound
MayWrite == ctl.calls + remote.calls < MaxWrites

\* the other session presses a button: its select of the row goes out
RemoteCall(newStatus, eventType) ==
    /\ MayWrite
    /\ remote.pc = "idle"
    /\ remote.calls < MaxRemoteCalls
    /\ remote' = [pc |-> "fetch", newStatus |-> newStatus, eventType |-> eventType,
                  before |-> "", calls |-> remote.calls + 1]
    /\ UNCHANGED <<varsCtl, dashOn, channels, pushed, logLoads>>

\* its select answers with the row: its update goes out
RemoteFetch ==
    /\ remote.pc = "fetch"
    /\ remote' = [remote EXCEPT !.pc = "update", !.before = system_state.status]
    /\ UNCHANGED <<varsCtl, dashOn, channels, pushed, logLoads>>

\* its update succeeds: its insert into activity_log goes out
RemoteUpdate ==
    /\ remote.pc = "update"
    /\ system_state' = Applied(system_state, remote.newStatus)
    /\ pushed' = Publish(pushed, StateChannel, remote.newStatus)
    /\ remote' = [remote EXCEPT !.pc = "insert"]
    /\ UNCHANGED <<activity_log, systemState, stateLoads, panel, panelLoading,
                   panelError, system_settings, settings, settingOps, ctl,
                   dashOn, channels, logLoads>>

\* its insert succeeds
RemoteInsert ==
    /\ remote.pc = "insert"
    /\ activity_log' = Append(activity_log,
          [event_type |-> remote.eventType, status_before |-> remote.before,
           status_after |-> remote.newStatus])
    /\ pushed' = Publish(pushed, LogChannel, "")
    /\ remote' = [remote EXCEPT !.pc = "idle"]
    /\ UNCHANGED <<system_state, systemState, stateLoads, panel, panelLoading,
                   panelError, system_settings, settings, settingOps, ctl,
                   dashOn, channels, logLoads>>

\* one of its requests fails: throw, and its call ends
RemoteError ==
    /\ remote.pc # "idle"
    /\ remote' = [remote EXCEPT !.pc = "idle"]
    /\ UNCHANGED <<varsCtl, dashOn, channels, pushed, logLoads>>

-----------------------------------------------------------------------------
(* LumoraDashboard.loadSettings *)

InitLoad ==
    /\ settingLoads = {}
    /\ loadHist = [calls |-> 0, inserted |-> 0]

\* the rows of the user that table system_settings may hold when the page opens
SettingRows == {Null, SettingsInit, [is_armed |-> TRUE, alert_threshold |-> 50]}

\* loadSettings(): the select ... .maybeSingle() goes out and the store answers
\* it, with the user's row, with no row, or with an error.  (user_id is UNIQUE,
\* so the select never finds two rows and PGRST116 is never its error.)
LoadSettingsStart ==
    /\ loadHist.calls < MaxSettingLoads
    /\ loadHist' = [loadHist EXCEPT !.calls = @ + 1]
    /\ \E failed \in BOOLEAN :
          settingLoads' = settingLoads \cup
              {[n |-> loadHist.calls + 1, stage |-> "select", error |-> failed,
                data |-> IF failed THEN Null ELSE system_settings]}
    /\ UNCHANGED <<system_state, activity_log, systemState, stateLoads, panel,
                   panelLoading, panelError, system_settings, settings, settingOps,
                   ctl>>

\* if (!data && user?.id), the user being signed in
MissingAlways(data) == TRUE
Missing(data) == data = Null

\* the select's answer is handled: throw on an error; with no row the insert of
\* { is_armed: false, alert_threshold: 70 } goes out and the store answers it,
\* refusing a second row of the user (user_id UNIQUE); else setSettings(data)
SettingsSelected(op) ==
    /\ op \in settingLoads
    /\ op.stage = "select"
    /\ IF op.error
       THEN /\ settingLoads' = settingLoads \ {op}
            /\ UNCHANGED <<system_settings, settings, loadHist>>
       ELSE IF Missing(op.data)
       THEN \E failed \in BOOLEAN :
               LET refused == failed \/ system_settings # Null IN
               /\ system_settings' = IF refused THEN system_settings ELSE SettingsInit
               /\ loadHist' = [loadHist EXCEPT
                                  !.inserted = @ + IF refused THEN 0 ELSE 1]
               /\ settingLoads' = (settingLoads \ {op}) \cup
                     {[n |-> op.n, stage |-> "insert", error |-> refused,
                       data |-> IF refused THEN Null ELSE SettingsInit]}
               /\ settings' = settings
       ELSE /\ settings' = op.data
            /\ settingLoads' = settingLoads \ {op}
            /\ UNCHANGED <<system_settings, loadHist>>
    /\ UNCHANGED <<system_state, activity_log, systemState, stateLoads, panel,
                   panelLoading, panelError, settingOps, ctl>>

\* the insert's answer is handled:  if (insertError) throw insertError;
\* setSettings(newSettings)
SettingsInserted(op) ==
    /\ op \in settingLoads
    /\ op.stage = "insert"
    /\ settings' = IF op.error THEN settings ELSE op.data
    /\ settingLoads' = settingLoads \ {op}
    /\ UNCHANGED <<system_state, activity_log, systemState, stateLoads, panel,
                   panelLoading, panelError, system_settings, settingOps, ctl,
                   loadHist>>

-----------------------------------------------------------------------------
(* useTheme *)

\* what localStorage.getItem('lumoraTheme') gives: null, or a value once written
SavedValues == {"none", "dark", "light"}

\* useState(true), before the mount effect
ThemeStart ==
    /\ isDark = TRUE
    /\ themePhase = "effect"
    /\ themeQueue = 0
    /\ themeHist = [base |-> TRUE, toggles |-> 0, calls |-> 0, restarts |-> 0,
                    last |-> TRUE]

InitTheme == lumoraTheme = "none" /\ ThemeStart

\* saved === 'dark'
Parsed(saved) == saved = "dark"

\* the mount effect:  if (saved) setIsDark(saved === 'dark')
ThemeEffect ==
    /\ themePhase = "effect"
    /\ isDark' = IF lumoraTheme # "none" THEN Parsed(lumoraTheme) ELSE isDark
    /\ themePhase' = "ready"
    /\ themeHist' = [themeHist EXCEPT !.base = isDark']
    /\ UNCHANGED <<lumoraTheme, themeQueue>>

\* toggleTheme(): setIsDark(updater), the updater run at the next render
ToggleTheme ==
    /\ themePhase = "ready"
    /\ themeHist.calls < MaxToggles
    /\ themeQueue' = themeQueue + 1
    /\ themeHist' = [themeHist EXCEPT !.calls = @ + 1]
    /\ UNCHANGED <<isDark, lumoraTheme, themePhase>>

\* localStorage.setItem('lumoraTheme', next ? 'dark' : 'light')
WrittenStale(prev, next) == IF prev THEN "dark" ELSE "light"
Written(prev, next) == IF next THEN "dark" ELSE "light"

\* n queued updaters run in turn:  const next = !prev;  setItem(...);  return next
RECURSIVE RunToggles(_, _, _)
RunToggles(flag, saved, n) ==
    IF n = 0 THEN [flag |-> flag, saved |-> saved]
    ELSE RunToggles(~flag, Written(flag, ~flag), n - 1)

\* React renders: the queued updaters run
ThemeRender ==
    /\ themeQueue > 0
    /\ LET after == RunToggles(isDark, lumoraTheme, themeQueue) IN
       /\ isDark' = after.flag
       /\ lumoraTheme' = after.saved
    /\ themeQueue' = 0
    /\ themeHist' = [themeHist EXCEPT !.toggles = @ + themeQueue]
    /\ UNCHANGED themePhase

\* the page is loaded again, once rendered: a fresh useTheme, localStorage kept
ThemeRestart ==
    /\ themePhase = "ready"
    /\ themeQueue = 0
    /\ themeHist.restarts < MaxRestarts
    /\ isDark' = TRUE
    /\ themePhase' = "effect"
    /\ themeHist' = [themeHist EXCEPT !.restarts = @ + 1, !.toggles = 0,
                                      !.last = isDark]
    /\ UNCHANGED <<lumoraTheme, themeQueue>>

InitRest == InitLive /\ InitLoad /\ InitTheme

-----------------------------------------------------------------------------
(* Specifications *)

\* the reducer with its callers recording and clearing, the clock standing still
NextBuffer ==
    \/ /\ \E id \in DetIds, cam \in CameraIds, conf \in Confidences, th \in Thresholds :
             AddDetection(id, cam, conf, th)
       /\ UNCHANGED <<varsTile, varsCams, varsCtl, varsRest>>
    \/ /\ \E id \in DetIds \cup {"old", "none"} : ClearDetection(id)
       /\ UNCHANGED <<varsTile, varsCams, varsCtl, varsRest>>
    \/ Render /\ UNCHANGED <<varsTile, varsCams, varsCtl, varsRest>>

InitBufferSpec == InitBuffer /\ InitTile /\ InitCams /\ InitCtl /\ InitRest

SpecBuffer == InitBufferSpec /\ [][NextBuffer]_vars

\* the reducer with time passing: recordings, expiry timers and renders
NextAlerts ==
    \/ /\ \E cam \in CameraIds, conf \in Confidences, th \in Thresholds :
             AddDetection("d1", cam, conf, th)
       /\ UNCHANGED <<varsTile, varsCams, varsCtl, varsRest>>
    \/ TimerFire /\ UNCHANGED <<varsTile, varsCams, varsCtl, varsRest>>
    \/ Render /\ UNCHANGED <<varsTile, varsCams, varsCtl, varsRest>>
    \/ Advance /\ UNCHANGED <<varsTile, varsCams, varsCtl, varsRest>>
    \/ Teardown /\ UNCHANGED <<varsTile, varsCams, varsCtl, varsRest>>

Init == InitAlerts /\ InitTile /\ InitCams /\ InitCtl /\ InitRest

SpecAlerts == Init /\ [][NextAlerts]_vars

\* one camera tile: mounts, prop changes, stream acquisition, the capture loop
NextTile ==
    \/ Mount /\ UNCHANGED <<varsFeed, varsCams, varsCtl, varsRest>>
    \/ Unmount /\ UNCHANGED <<varsFeed, varsCams, varsCtl, varsRest>>
    \/ /\ \E active \in BOOLEAN, url \in Urls : SetProps(active, url)
       /\ UNCHANGED <<varsFeed, varsCams, varsCtl, varsRest>>
    \/ /\ \E e \in effects : AcquireOk(e)
       /\ UNCHANGED <<varsFeed, varsCams, varsCtl, varsRest>>
    \/ /\ \E e \in effects : AcquireFail(e)
       /\ UNCHANGED <<varsFeed, varsCams, varsCtl, varsRest>>
    \/ TickSkip
    \/ TickPost /\ UNCHANGED <<varsFeed, varsCams, varsCtl, varsRest>>
    \/ /\ \E r \in inflight : ResponseOk(r)
       /\ UNCHANGED <<varsFeed, varsCams, varsCtl, varsRest>>
    \/ /\ \E r \in inflight : ResponseFail(r)
       /\ UNCHANGED <<varsFeed, varsCams, varsCtl, varsRest>>

SpecTile == Init /\ [][NextTile]_vars

\* the camera list: loads, reorders and the store's answers
NextCameras ==
    \/ LoadStart /\ UNCHANGED <<varsFeed, varsTile, varsCtl, varsRest>>
    \/ /\ \E op \in loads : LoadOrderedOk(op)
       /\ UNCHANGED <<varsFeed, varsTile, varsCtl, varsRest>>
    \/ /\ \E op \in loads : LoadOrderedError(op)
       /\ UNCHANGED <<varsFeed, varsTile, varsCtl, varsRest>>
    \/ /\ \E op \in loads : LoadFallbackOk(op)
       /\ UNCHANGED <<varsFeed, varsTile, varsCtl, varsRest>>
    \/ /\ \E op \in loads : LoadFallbackError(op)
       /\ UNCHANGED <<varsFeed, varsTile, varsCtl, varsRest>>
    \/ /\ \E oldIndex, newIndex \in 0..(Len(cameras) - 1) : Reorder(oldIndex, newIndex)
       /\ UNCHANGED <<varsFeed, varsTile, varsCtl, varsRest>>
    \/ /\ \E op \in upserts : PersistAnswered(op)
       /\ UNCHANGED <<varsFeed, varsTile, varsCtl, varsRest>>
    \/ /\ \E op \in upserts : PersistError(op)
       /\ UNCHANGED <<varsFeed, varsTile, varsCtl, varsRest>>
    \/ /\ \E i \in DOMAIN cameras : DeleteStart(cameras[i].id)
       /\ UNCHANGED <<varsFeed, varsTile, varsCtl, varsRest>>
    \/ /\ \E op \in deletes : DeleteOk(op)
       /\ UNCHANGED <<varsFeed, varsTile, varsCtl, varsRest>>
    \/ /\ \E op \in deletes : DeleteError(op)
       /\ UNCHANGED <<varsFeed, varsTile, varsCtl, varsRest>>

SpecCameras == Init /\ [][NextCameras]_vars

\* an answer that has come in is handled: the await resumes
HandleLoad ==
    /\ \E op \in loads : \/ LoadOrderedOk(op) \/ LoadOrderedError(op)
                          \/ LoadFallbackOk(op) \/ LoadFallbackError(op)
    /\ UNCHANGED <<varsFeed, varsTile, varsCtl, varsRest>>

\* the camera list when every answered query is handled in the end
SpecCamerasFair == Init /\ [][NextCameras]_vars /\ WF_vars(HandleLoad)

\* the control panel and the settings handlers, with the store's answers
NextControl ==
    \/ /\ \E b \in Buttons : UpdateSystemState(b[1], b[2])
       /\ UNCHANGED <<varsFeed, varsTile, varsCams, varsRest>>
    \/ FetchOk /\ UNCHANGED <<varsFeed, varsTile, varsCams, varsRest>>
    \/ FetchError /\ UNCHANGED <<varsFeed, varsTile, varsCams, varsRest>>
    \/ UpdateOk /\ UNCHANGED <<varsFeed, varsTile, varsCams, varsLive, varsLoad, varsTheme>>
    \/ UpdateError /\ UNCHANGED <<varsFeed, varsTile, varsCams, varsRest>>
    \/ InsertOk /\ UNCHANGED <<varsFeed, varsTile, varsCams, varsLive, varsLoad, varsTheme>>
    \/ InsertError /\ UNCHANGED <<varsFeed, varsTile, varsCams, varsRest>>
    \/ LoadStateOk /\ UNCHANGED <<varsFeed, varsTile, varsCams, varsRest>>
    \/ LoadStateError /\ UNCHANGED <<varsFeed, varsTile, varsCams, varsRest>>
    \/ HandleToggle /\ UNCHANGED <<varsFeed, varsTile, varsCams, varsRest>>
    \/ /\ \E threshold \in ThresholdChoices : HandleThresholdChange(threshold)
       /\ UNCHANGED <<varsFeed, varsTile, varsCams, varsRest>>
    \/ /\ \E op \in settingOps : SettingAnswered(op)
       /\ UNCHANGED <<varsFeed, varsTile, varsCams, varsRest>>

SpecControl == Init /\ [][NextControl]_vars

\* the control panel of a subscribed Dashboard, a second session writing the
\* same row, the change messages and the Dashboard's teardown
NextSessions ==
    \/ /\ MayWrite
       /\ \E b \in Buttons : UpdateSystemState(b[1], b[2])
       /\ UNCHANGED <<varsFeed, varsTile, varsCams, varsRest>>
    \/ FetchOk /\ UNCHANGED <<varsFeed, varsTile, varsCams, varsRest>>
    \/ FetchError /\ UNCHANGED <<varsFeed, varsTile, varsCams, varsRest>>
    \/ UpdateOk /\ UNCHANGED <<varsFeed, varsTile, varsCams, varsLive, varsLoad, varsTheme>>
    \/ UpdateError /\ UNCHANGED <<varsFeed, varsTile, varsCams, varsRest>>
    \/ InsertOk /\ UNCHANGED <<varsFeed, varsTile, varsCams, varsLive, varsLoad, varsTheme>>
    \/ InsertError /\ UNCHANGED <<varsFeed, varsTile, varsCams, varsRest>>
    \/ LoadStateOk /\ UNCHANGED <<varsFeed, varsTile, varsCams, varsRest>>
    \/ LoadStateError /\ UNCHANGED <<varsFeed, varsTile, varsCams, varsRest>>
    \/ /\ \E b \in Buttons : RemoteCall(b[1], b[2])
       /\ UNCHANGED <<varsFeed, varsTile, varsCams, varsLoad, varsTheme>>
    \/ RemoteFetch /\ UNCHANGED <<varsFeed, varsTile, varsCams, varsLoad, varsTheme>>
    \/ RemoteUpdate /\ UNCHANGED <<varsFeed, varsTile, varsCams, varsLoad, varsTheme>>
    \/ RemoteInsert /\ UNCHANGED <<varsFeed, varsTile, varsCams, varsLoad, varsTheme>>
    \/ RemoteError /\ UNCHANGED <<varsFeed, varsTile, varsCams, varsLoad, varsTheme>>
    \/ Delivered /\ UNCHANGED <<varsFeed, varsTile, varsCams, varsLoad, varsTheme>>
    \/ DashTeardown /\ UNCHANGED <<varsFeed, varsTile, varsCams, varsLoad, varsTheme>>

InitSessions ==
    InitAlerts /\ InitTile /\ InitCams /\ InitCtl /\ InitSubscribed /\ InitLoad /\ InitTheme

SpecSessions == InitSessions /\ [][NextSessions]_vars

\* the settings of a user whose page opens: loadSettings and the store's answers
NextSettings ==
    \/ LoadSettingsStart
         /\ UNCHANGED <<varsFeed, varsTile, varsCams, varsLive, pushed, varsTheme>>
    \/ /\ \E op \in settingLoads : SettingsSelected(op)
       /\ UNCHANGED <<varsFeed, varsTile, varsCams, varsLive, pushed, varsTheme>>
    \/ /\ \E op \in settingLoads : SettingsInserted(op)
       /\ UNCHANGED <<varsFeed, varsTile, varsCams, varsLive, pushed, varsTheme>>

\* the control state with the settings not yet loaded: useState(null)
InitCtlOpening ==
    /\ system_state = [status |-> "disarmed"]
    /\ activity_log = <<>>
    /\ systemState = "disarmed"
    /\ stateLoads = 0
    /\ panel = Idle
    /\ panelLoading = FALSE
    /\ panelError = ""
    /\ system_settings \in SettingRows
    /\ settings = Null
    /\ settingOps = {}
    /\ ctl = [calls |-> 0, tried |-> {}, failed |-> "none", settingCalls |-> 0,
              refused |-> 0]

InitSettings ==
    InitAlerts /\ InitTile /\ InitCams /\ InitCtlOpening /\ InitLive /\ InitLoad /\ InitTheme

SpecSettings == InitSettings /\ [][NextSettings]_vars

\* the theme flag: the mount effect, toggles, renders and page loads
NextTheme ==
    \/ ThemeEffect /\ UNCHANGED <<varsFeed, varsTile, varsCams, varsCtl, varsLive, pushed, varsLoad>>
    \/ ToggleTheme /\ UNCHANGED <<varsFeed, varsTile, varsCams, varsCtl, varsLive, pushed, varsLoad>>
    \/ ThemeRender /\ UNCHANGED <<varsFeed, varsTile, varsCams, varsCtl, varsLive, pushed, varsLoad>>
    \/ ThemeRestart /\ UNCHANGED <<varsFeed, varsTile, varsCams, varsCtl, varsLive, pushed, varsLoad>>

\* any saved value when the page first opens
InitThemeSpec ==
    /\ InitAlerts /\ InitTile /\ InitCams /\ InitCtl /\ InitLive /\ InitLoad
    /\ lumoraTheme \in SavedValues
    /\ ThemeStart

SpecTheme == InitThemeSpec /\ [][NextTheme]_vars

-----------------------------------------------------------------------------
(* Properties of the detection feed reducer *)

\* the entries of the active set, and the queued inserts, that call s produced
EntriesOf(s) ==
    Cardinality({i \in DOMAIN activeAlerts : activeAlerts[i].seq = s})
    + Cardinality({i \in DOMAIN alertQueue :
                     alertQueue[i].kind = "insert" /\ alertQueue[i].seq = s})

\* the expiry of call s is still to come: its timer has not fired, or the
\* sweep its timer queued has not run
ExpiryPending(s) ==
    \/ \E i \in DOMAIN timers : timers[i].seq = s
    \/ \E i \in DOMAIN alertQueue :
          alertQueue[i].kind = "sweep" /\ alertQueue[i].seq = s

\* the alert of call s has been created and is in the active set
Active(s) == \E i \in DOMAIN activeAlerts : activeAlerts[i].seq = s

InsertQueued(s) ==
    \E i \in DOMAIN alertQueue :
        alertQueue[i].kind = "insert" /\ alertQueue[i].seq = s

MostRecentFirst ==
    \A i, j \in DOMAIN detections : i < j => detections[i].seq > detections[j].seq

\* a step that records a detection
Records == Len(calls') = Len(calls) + 1

\* C1: the detection buffer never holds more than 100 entries and is ordered
\* most-recent-first; every recordDetection puts the new event at index 0,
\* keeps the previous entries in their order and drops only the oldest beyond
\* 100, also with clearDetection calls in between.
C1_BufferBoundedNewestFirst ==
    /\ [](Len(detections) <= BufferCap /\ MostRecentFirst)
    /\ [][Records =>
            /\ Len(detections') = Min(Len(detections) + 1, BufferCap)
            /\ detections'[1].seq = Len(calls')
            /\ detections'[1].confidence = calls'[Len(calls')].confidence
            /\ \A i \in 2..Len(detections') : detections'[i] = detections[i - 1]]_vars

\* C1 witness: the buffer is full, the newest entry is a call of the run and
\* the oldest recorded entry has been dropped.
C1_Witness ==
    /\ Len(detections) = BufferCap
    /\ detections[1].seq = MaxEvents
    /\ detections[BufferCap].seq > 1 - Prefill

\* an alert younger than 5000 ms is never removed, whatever its confidence
YoungAlertsStay ==
    \A s \in DOMAIN calls :
        Raises(calls[s].confidence, calls[s].threshold)
        /\ ~InsertQueued(s) /\ now - calls[s].at < AlertTtl => Active(s)

\* C2: an alert is in the active set while it is younger than 5000 ms, and an
\* alert aged 5000 ms or more is in the set at most until its own expiry
\* timer has fired and the sweep it queued has run (the timer's granularity).
C2_AlertLivesExactlyTtl ==
    /\ \A i \in DOMAIN activeAlerts :
          now - activeAlerts[i].timestamp >= AlertTtl
              => ExpiryPending(activeAlerts[i].seq)
    /\ YoungAlertsStay

\* C3: every recordDetection whose confidence is at least the threshold
\* (equality included) produces exactly one active-alert entry, which stays
\* at least until 5000 ms after the call; one below the threshold produces none.
C3_OneAlertPerRaisingCall ==
    \A s \in DOMAIN calls :
        IF calls[s].confidence < calls[s].threshold
        THEN EntriesOf(s) = 0
        ELSE /\ EntriesOf(s) <= 1
             /\ now - calls[s].at < AlertTtl => EntriesOf(s) = 1

\* C3 witness: a call at exactly the threshold has its alert in the active
\* set, and a call below the threshold has been made as well.
C3_Witness ==
    \E s, r \in DOMAIN calls :
        /\ calls[s].confidence = calls[s].threshold
        /\ Active(s)
        /\ calls[r].confidence < calls[r].threshold
        /\ Len(activeAlerts) = 1

\* C4: each alert expires on its own timer: once the sweep queued by an
\* alert's own expiry timer has run, that alert is no longer in the active
\* set, whatever other alerts it leaves there; and no sweep removes an alert
\* younger than 5000 ms.
C4_OwnTimerExpiresAlert ==
    /\ \A i \in DOMAIN activeAlerts : ExpiryPending(activeAlerts[i].seq)
    /\ YoungAlertsStay

\* the buffer holds an event with this id
Carries(id) == \E i \in DOMAIN detections : detections[i].id = id

\* C14: clearDetection(id) leaves the active alerts, their queued updates and
\* their timers as they are; with an id no event carries it leaves the buffer
\* as it is; otherwise the buffer afterwards holds exactly the events with
\* another id, in the order they had.
C14_ClearRemovesOnlyThatId ==
    [][\A id \in DetIds \cup {"old", "none"} :
          ClearDetection(id)
              => /\ activeAlerts' = activeAlerts
                 /\ alertQueue' = alertQueue
                 /\ timers' = timers
                 /\ ~Carries(id) => detections' = detections
                 /\ {detections'[i] : i \in DOMAIN detections'}
                      = {detections[i] : i \in {j \in DOMAIN detections :
                                                   detections[j].id # id}}
                 /\ Len(detections')
                      = Cardinality({j \in DOMAIN detections : detections[j].id # id})
                 /\ \A i, j \in DOMAIN detections' :
                       i < j => detections'[i].seq > detections'[j].seq]_vars

\* C14 witness: of the two events recorded in the run the first has been
\* cleared, while the second and the events recorded earlier are still there.
C14_Witness ==
    /\ Len(calls) = 2
    /\ Len(detections) > 2
    /\ detections[1].seq = 2
    /\ detections[2].seq < 1
    /\ detections[Len(detections)].id = "old"

\* C15: hasActiveAlert is true exactly when the active set is not empty, and
\* highestConfidence is the largest confidence in the active set, 0 when it
\* is empty.
C15_DerivedReads ==
    /\ hasActiveAlert <=> activeAlerts # <<>>
    /\ highestConfidence =
          IF activeAlerts = <<>> THEN 0
          ELSE CHOOSE m \in {activeAlerts[i].confidence : i \in DOMAIN activeAlerts} :
                  \A i \in DOMAIN activeAlerts : activeAlerts[i].confidence <= m

\* C15 witness: an alert of confidence 90 has expired and one of confidence
\* 70 remains: highestConfidence has dropped to 70.
C15_Witness ==
    /\ \E s \in DOMAIN calls :
          /\ calls[s].confidence = 90
          /\ ~Active(s) /\ ~InsertQueued(s) /\ ~ExpiryPending(s)
    /\ Len(activeAlerts) = 1
    /\ hasActiveAlert
    /\ highestConfidence = 70

\* C19: once the component that owns the feed is unmounted, no alert-expiry
\* timer is pending.
C19_TimersClearedOnTeardown ==
    ~feedOn => timers = <<>>

-----------------------------------------------------------------------------
(* Properties of the camera tile *)

\* the streams acquired and not stopped
Held == {e \in effects : e.status = "held"}

\* C5: a response that arrives after its tile instance was unmounted changes
\* nothing: the overlay list and all other state of the tile, of the feed and
\* of the camera list are as before (the request leaves the set in flight).
C5_LateResponseChangesNothing ==
    [][\A r \in inflight :
          r \notin inflight' /\ ~Live(r.inst)
              => UNCHANGED <<mounted, inst, is_active, stream_url, localDetections,
                             error, isStreaming, srcObject, effects, loopOn,
                             varsFeed, varsCams, varsCtl, varsRest>>]_vars

\* C5 witness: an ok response has just arrived late, while a later instance
\* of the tile is mounted and shows an overlay of its own.
C5_Witness ==
    /\ lastAnswer = "ok, late"
    /\ mounted
    /\ localDetections # <<>>

\* C6: the overlay of the mounted tile holds the detections of the ok
\* response that arrived last, whatever the order of the requests (and is
\* empty before any arrived).
C6_OverlayIsLastArrival ==
    localDetections = IF lastOk = 0 THEN <<>> ELSE Detected([id |-> lastOk])

\* C6 witness: the response of an earlier request arrived after that of a
\* later request, and the overlay holds the earlier request's detections.
C6_Witness ==
    /\ lastOk # 0
    /\ lastOk < maxOkId
    /\ localDetections = Detected([id |-> lastOk])

\* C7: the interval of the capture loop is pending only while the tile is
\* mounted, the camera active and the stream the one the loop began with, and
\* every request in flight was posted in such a state.
C7_LoopTornDown ==
    /\ loopOn => mounted /\ is_active /\ loopUrl = stream_url
    /\ \A r \in inflight : r.wanted

\* C8: a tile holds at most one stream that is not stopped, and none once it
\* is unmounted or its camera inactive and no acquisition is under way.
C8_StreamsReleased ==
    /\ Cardinality(Held) <= 1
    /\ (~mounted \/ ~is_active) /\ (\A e \in effects : e.status # "pending")
          => Held = {}

\* C13: a successful detector response handled by the mounted tile has been
\* recorded in the detection feed: addDetection was called and the buffer
\* holds an event.
C13_ResultsReachTheFeed ==
    lastOk # 0 => calls # <<>> /\ detections # <<>>

\* C17: a failed inference request leaves the overlay list and the loop's
\* interval as they were; a successful response handled by the mounted tile
\* makes the overlay list the response's detections and nothing else.
C17_FailureDropsSuccessReplaces ==
    [][\A r \in inflight :
          r \notin inflight'
              => IF lastAnswer' \in {"failed", "failed, late"}
                 THEN localDetections' = localDetections /\ loopOn' = loopOn
                 ELSE Live(r.inst) => localDetections' = Detected(r)]_vars

\* C17 witness: the request handled last failed, the overlay still holds the
\* detections of an earlier response and the loop's interval is pending.
C17_Witness ==
    /\ lastAnswer = "failed"
    /\ mounted
    /\ localDetections # <<>>
    /\ loopOn

\* C18: once an acquisition has failed for the mounted tile, its capture loop
\* does not run and the tile shows the error (the placeholder with the error
\* is rendered only while isStreaming is false).
C18_FailedAcquisitionStopsLoop ==
    error = "Failed to access webcam" => ~loopOn /\ ~isStreaming

\* C20: while the camera of a mounted tile is inactive, the overlay list is
\* empty.
C20_OverlayEmptyWhileInactive ==
    mounted /\ ~is_active => localDetections = <<>>

-----------------------------------------------------------------------------
(* Properties of the camera list *)

\* the list s with the element at position from moved to position to
Moved(s, from, to) ==
    [i \in DOMAIN s |->
        IF i = to THEN s[from]
        ELSE IF from <= i /\ i < to THEN s[i + 1]
        ELSE IF to < i /\ i <= from THEN s[i - 1]
        ELSE s[i]]

Ids(list) == [i \in DOMAIN list |-> list[i].id]

\* C9: reorder(from, to) sets the local list at once to the list with the
\* element at from moved to to (reorder(0, 2) on [A,B,C] gives [B,C,A]), and
\* the answer to the upsert, success or failure, leaves the local list as it is.
C9_ReorderIsImmediateAndKept ==
    /\ [](ArrayMove(<<"A", "B", "C">>, 0 + 1, 2 + 1) = <<"B", "C", "A">>)
    /\ [][/\ \A from, to \in 0..(Len(cameras) - 1) :
               Reorder(from, to) => cameras' = Moved(cameras, from + 1, to + 1)
           /\ \A op \in upserts : op \notin upserts' => cameras' = cameras]_vars

\* C9 witness: the one reorder made was reorder(0, 2) on [A,B,C]; its upsert
\* has been answered and left the store as it was (it failed), and the local
\* order is [B,C,A].
C9_Witness ==
    /\ started.reorders = 1
    /\ upserts = {}
    /\ store = StoreInit
    /\ Ids(cameras) = <<"B", "C", "A">>

\* the answer data lists every row of the user, each once
ListsOwnRows(data) ==
    /\ {data[i].id : i \in DOMAIN data} = {id \in DOMAIN store : store[id].user_id = User}
    /\ \A i, j \in DOMAIN data : i # j => data[i].id # data[j].id

ByPosition(data) ==
    \A i \in 1..(Len(data) - 1) :
        store[data[i].id].position <= store[data[i + 1].id].position

\* C10: when the ordered fetch fails, load() makes the unordered fetch, and
\* when that succeeds the local list becomes its rows, which are all rows of
\* the user; when the ordered fetch succeeds the local list becomes its rows,
\* which are all rows of the user ordered by position.
C10_LoadFallsBack ==
    [][/\ \A op \in loads' \ loads :
             ~op.error => /\ ListsOwnRows(op.data)
                          /\ op.query = "ordered" => ByPosition(op.data)
       /\ \A op \in loads \ loads' :
             IF op.query = "ordered" /\ op.error
             THEN /\ cameras' = cameras
                  /\ \E f \in loads' : f.n = op.n /\ f.query = "fallback"
             ELSE ~op.error => cameras' = op.data /\ cameras' # <<>>]_vars

\* C10 witness: no reorder was made, no load is under way, and the local list
\* holds the user's three rows out of position order: it came from the fallback.
C10_Witness ==
    /\ started.reorders = 0
    /\ started.deletes = 0
    /\ loads = {}
    /\ ~loading
    /\ Len(cameras) = 3
    /\ ~ByPosition(cameras)

\* the list without its entry for cameraId, the entries after it moved up by
\* one place
Dropped(list, cameraId) ==
    IF \A i \in DOMAIN list : list[i].id # cameraId THEN list
    ELSE LET k == CHOOSE i \in DOMAIN list : list[i].id = cameraId IN
         [i \in 1..(Len(list) - 1) |-> IF i < k THEN list[i] ELSE list[i + 1]]

\* C16: a delete the store accepted has removed the row from the store, and
\* when its answer is handled the camera leaves the local list, the others
\* keeping their order, and no load is started; a delete the store refused
\* leaves the store and the local list as they were.
C16_RemoveIsLocalOnSuccess ==
    [][/\ \A op \in deletes' \ deletes :
             IF op.error THEN store' = store /\ cameras' = cameras
             ELSE op.id \notin DOMAIN store' /\ cameras' = cameras
       /\ \A op \in deletes \ deletes' :
             IF op.error THEN cameras' = cameras
             ELSE /\ cameras' = Dropped(cameras, op.id)
                  /\ \A i \in DOMAIN cameras' : cameras'[i].id # op.id
                  /\ loads' = loads
                  /\ started' = started]_vars

\* C16 witness: after one load, the delete of the middle camera B has been
\* accepted and handled: the local list is [A, C], the row is gone from the
\* store and no second load was made.
C16_Witness ==
    /\ started.deletes = 1
    /\ started.loads = 1
    /\ started.reorders = 0
    /\ deletes = {}
    /\ "B" \notin DOMAIN store
    /\ Ids(cameras) = <<"A", "C">>

-----------------------------------------------------------------------------
(* Properties of the control panel and the settings handlers *)

\* the last updateSystemState call is over
Finished == ctl.calls > 0 /\ panel.pc = "idle"

\* C11: every finished status change attempted both the update and the audit
\* insert (the insert also when the update failed), a failure left an error
\* for the caller to see, and every change of the stored settings has an audit
\* record.
C11_UpdateAndAuditAttempted ==
    /\ Finished => {"update", "insert"} \subseteq ctl.tried
    /\ Finished /\ ctl.failed # "none" => panelError # ""
    /\ system_settings # SettingsInit => activity_log # <<>>

-----------------------------------------------------------------------------
(* Properties of the realtime subscriptions and of concurrent sessions *)

C28_AuditLogIsAChain ==
    /\ [][/\ panel.pc = "update" /\ panel'.pc = "insert"
               => panel.before = system_state.status
          /\ remote.pc = "update" /\ remote'.pc = "insert"
               => remote.before = system_state.status
          /\ Len(activity_log') > Len(activity_log)
               => LET r == activity_log'[Len(activity_log')] IN
                  \/ panel.pc = "insert" /\ panel'.pc = "idle"
                       /\ r.status_after = panel.newStatus
                       /\ r.status_before = panel.before
                  \/ remote.pc = "insert" /\ remote'.pc = "idle"
                       /\ r.status_after = remote.newStatus
                       /\ r.status_before = remote.before]_vars
    /\ [](\A i \in 2..Len(activity_log) :
             activity_log[i].status_before = activity_log[i - 1].status_after)

-----------------------------------------------------------------------------
(* Properties of the theme flag *)

\* C22: the mount effect leaves the flag at the saved value when one is
\* stored and at dark otherwise; once the toggles made are rendered, the
\* stored value names the flag (after at least one toggle), the flag is the
\* one the start settled on when their number is even and its opposite when
\* odd, and a page load after at least one toggle settles on the flag that
\* was last shown.
C22_ThemeIsSavedAndReadBack ==
    /\ [][themePhase = "effect" /\ themePhase' = "ready"
             => /\ isDark' = IF lumoraTheme \in {"dark", "light"}
                              THEN lumoraTheme = "dark" ELSE TRUE
                /\ themeHist.restarts > 0 /\ themeHist.calls > 0
                      => isDark' = themeHist.last]_vars
    /\ [](themePhase = "ready" /\ themeQueue = 0
             => /\ themeHist.toggles > 0
                      => lumoraTheme = IF isDark THEN "dark" ELSE "light"
                /\ isDark = IF themeHist.toggles % 2 = 0 THEN themeHist.base
                                                          ELSE ~themeHist.base)

\* C22 witness: one toggle to light, a page load that read light back, then
\* two toggles, rendered: the flag is light again and so is the stored value.
C22_Witness ==
    /\ themeHist.restarts = 1
    /\ themeHist.calls = 3
    /\ themePhase = "ready" /\ themeQueue = 0
    /\ themeHist.toggles = 2
    /\ themeHist.base = FALSE /\ themeHist.last = FALSE
    /\ ~isDark
    /\ lumoraTheme = "light"

-----------------------------------------------------------------------------
(* Properties that tie the feed to the settings *)

\* C23: while the stored and local is_armed are false, every detection made
\* is recorded in the buffer, but no alert is queued or active for it and the
\* banner is not shown, whatever its confidence.
C23_DisarmedRaisesNoAlert ==
    /\ [][~settings.is_armed /\ Records
             => /\ detections'[1].seq = Len(calls')
                /\ alertQueue' = alertQueue
                /\ timers' = timers]_vars
    /\ [](~settings.is_armed => activeAlerts = <<>> /\ ~hasActiveAlert)

-----------------------------------------------------------------------------
(* Properties of the camera list: persistence and overlapping calls *)

\* the list without the entries of camera id
Without(list, id) == SelectSeq(list, LAMBDA c : c.id # id)

\* C24: reorder(from, to) with distinct valid indices leaves a list of the
\* same length with the same cameras, each once, the cameras other than the
\* moved one in their previous order; the upsert it issues has one row per
\* camera of the new list, in order, with position equal to the index; and
\* once the store has answered that upsert, each of those cameras has its
\* index as stored position.
C24_ReorderPersistsIndices ==
    [][/\ \A from, to \in 0..(Len(cameras) - 1) :
             Reorder(from, to)
                 => /\ Len(cameras') = Len(cameras)
                    /\ \A i \in DOMAIN cameras :
                          Cardinality({j \in DOMAIN cameras' : cameras'[j] = cameras[i]})
                              = Cardinality({j \in DOMAIN cameras : cameras[j] = cameras[i]})
                    /\ Without(cameras', cameras[from + 1].id)
                          = Without(cameras, cameras[from + 1].id)
                    /\ \E op \in upserts' \ upserts :
                          /\ Len(op.updates) = Len(cameras')
                          /\ \A i \in DOMAIN cameras' :
                                /\ op.updates[i].id = cameras'[i].id
                                /\ op.updates[i].position = i - 1
       /\ \A op \in upserts :
             PersistAnswered(op)
                 => \A i \in DOMAIN op.updates :
                       op.updates[i].id \in DOMAIN store'
                           => store'[op.updates[i].id].position = i - 1]_vars

\* C25: a camera whose delete the store accepted and whose removal from the
\* local list has been done is not in the local list after any later step.
C25_RemovedStaysRemoved ==
    [][\A id \in DOMAIN StoreInit :
          /\ id \notin DOMAIN store
          /\ \A op \in deletes : op.id # id
          /\ \A i \in DOMAIN cameras : cameras[i].id # id
          => \A i \in DOMAIN cameras' : cameras'[i].id # id]_vars

\* C29: every loadCameras call ends, and when it ends the loading flag is
\* cleared, whichever of its queries succeeded or failed; a failed query's
\* handling leaves the local list as it is, so a call whose two queries fail
\* changes nothing in it.
C29_LoadEndsWithLoadingCleared ==
    /\ [][\A op \in loads \ loads' :
             /\ op.error => cameras' = cameras
             /\ (\A f \in loads' : f.n # op.n) => ~loading']_vars
    /\ [](started.loads > 0 /\ loads = {} => ~loading)
    /\ (loads # {}) ~> (loads = {} /\ ~loading)

\* C29 witness: the one call made has ended with both queries failed: the
\* list is still empty although the user has rows, and loading is cleared.
C29_Witness ==
    /\ started.loads = 1
    /\ started.reorders = 0 /\ started.deletes = 0
    /\ loads = {}
    /\ cameras = <<>>
    /\ OwnIds(store, User) # {}
    /\ ~loading

-----------------------------------------------------------------------------
(* Properties of the settings *)

\* C27: when no settings write is in flight and none of those issued was
\* refused, the local is_armed and alert_threshold equal the stored ones.
C27_SettingsConverge ==
    settingOps = {} /\ ctl.refused = 0
        => /\ settings.is_armed = system_settings.is_armed
           /\ settings.alert_threshold = system_settings.alert_threshold

\* C30: handling a select that found the user's row adopts that row and
\* inserts nothing; handling a select that found none sends one insert, which
\* when no row exists and it does not fail creates the row { is_armed: false,
\* alert_threshold: 70 }, and handling its answer adopts that row; handling a
\* failed select or a failed insert leaves the local settings as they were;
\* and no run inserts more than one row, or any row when one existed.
C30_SettingsRowIsSingleton ==
    /\ [][\A op \in settingLoads \ settingLoads' :
             IF op.error
             THEN settings' = settings /\ system_settings' = system_settings
             ELSE IF op.stage = "insert"
             THEN /\ settings' = op.data
                  /\ op.data = [is_armed |-> FALSE, alert_threshold |-> 70]
                  /\ system_settings' = system_settings
             ELSE IF op.data # Null
             THEN /\ settings' = op.data
                  /\ system_settings' = system_settings
                  /\ loadHist'.inserted = loadHist.inserted
                  /\ \A f \in settingLoads' : f.n # op.n
             ELSE /\ settings' = settings
                  /\ \E f \in settingLoads' :
                        /\ f.n = op.n /\ f.stage = "insert"
                        /\ system_settings = Null /\ ~f.error
                              => /\ system_settings'
                                      = [is_armed |-> FALSE, alert_threshold |-> 70]
                                 /\ loadHist'.inserted = loadHist.inserted + 1
                        /\ system_settings # Null \/ f.error
                              => /\ system_settings' = system_settings
                                 /\ loadHist'.inserted = loadHist.inserted]_vars
    /\ [](loadHist.inserted <= 1)
    /\ [][system_settings # Null => loadHist'.inserted = loadHist.inserted]_vars

\* C30 witness: two loads overlapped for a user without a row: both found
\* none, one insert created the row and the other was refused; the local
\* settings are the inserted row and the store holds that one row.
C30_Witness ==
    /\ loadHist.calls = 2
    /\ loadHist.inserted = 1
    /\ settingLoads = {}
    /\ settings = [is_armed |-> FALSE, alert_threshold |-> 70]
    /\ system_settings = settings

====
